---- MODULE Spec2Model ----
(***************************************************************************)
(* Model of the moving-average crossover grid search of definitive_app.py: *)
(* moving_average_crossover_signals, backtest_signals, compute_performance *)
(* and find_best_edges.                                                    *)
(*                                                                         *)
(* Conventions.  A pandas Series is a sequence; Python index i is index    *)
(* i+1 here.  A float is a record [nan, n, d]: NaN, or the reduced         *)
(* fraction n/d with d > 0 (exact arithmetic, no rounding).  The Sharpe    *)
(* ratio sqrt(252) * mean / std is irrational in general, so the field     *)
(* sharpe holds sgn(s) * s^2 for the Sharpe ratio s; x |-> sgn(x) * x^2 is *)
(* a strictly increasing bijection of the reals that fixes 0 and keeps     *)
(* NaN, so every comparison of two sharpe fields is the comparison of the  *)
(* two ratios.  Prices are positive integers, so no division by zero       *)
(* occurs in pct_change.                                                   *)
(***************************************************************************)
EXTENDS Integers, Sequences, FiniteSets, TLC

\* ---------------------------------------------------------------- bounds
MaxLen    == 4      \* longest generated price series
MaxPrice  == 2      \* generated prices are 1..MaxPrice
MaxPeriod == 3      \* range ends of the generated grids are 1..MaxPeriod
WideHi    == 6      \* largest slow period of the wide grid (more than 10 pairs)

\* ------------------------------------------------------- program constants
TopN              == 10     \* performances[:10]
AnnualizationDays == 252    \* np.sqrt(252)

VARIABLES
    prices,        \* the price series passed to the call
    fast_range,    \* <<fast_start, fast_end>>
    slow_range,    \* <<slow_start, slow_end>>
    fast,          \* value of the outer loop variable (next one to run)
    slow,          \* value of the inner loop variable (next one to run)
    performances,  \* the list find_best_edges appends to
    signal,        \* the signal Series of the latest call
    equity,        \* the equity Series of the latest call
    result,        \* the list find_best_edges returned
    pc,            \* "loop", "done", "raised"; "bt", "bt_done" for a lone backtest;
                   \* "nl", "nl_signals", "nl_done" for the two compared calls
    second         \* prices, signal and equity of a second, compared call

vars == <<prices, fast_range, slow_range, fast, slow, performances, signal,
          equity, result, pc, second>>

\* ------------------------------------------------------------ float values
Abs(x) == IF x < 0 THEN -x ELSE x

Max(a, b) == IF a >= b THEN a ELSE b

RECURSIVE GCD(_, _)
GCD(a, b) == IF b = 0 THEN a ELSE GCD(b, a % b)

NaN == [nan |-> TRUE, n |-> 0, d |-> 1]

\* the float n/d, d # 0, reduced
Float(n, d) ==
    LET g == GCD(Abs(n), Abs(d))
        s == IF d < 0 THEN -1 ELSE 1
    IN  [nan |-> FALSE, n |-> s * (n \div g), d |-> s * (d \div g)]

Zero == Float(0, 1)
One  == Float(1, 1)

FAdd(a, b) ==
    IF a.nan \/ b.nan THEN NaN
    ELSE LET g == GCD(a.d, b.d)
         IN  Float(a.n * (b.d \div g) + b.n * (a.d \div g), (a.d \div g) * b.d)

FNeg(a) == IF a.nan THEN NaN ELSE [nan |-> FALSE, n |-> -a.n, d |-> a.d]

FSub(a, b) == FAdd(a, FNeg(b))

FMul(a, b) ==
    IF a.nan \/ b.nan THEN NaN
    ELSE LET g1 == GCD(Abs(a.n), b.d)
             g2 == GCD(Abs(b.n), a.d)
         IN  Float((a.n \div g1) * (b.n \div g2), (a.d \div g2) * (b.d \div g1))

\* a / b; 0/0 and NaN operands give NaN (a nonzero a over 0 does not occur)
FDiv(a, b) ==
    IF a.nan \/ b.nan \/ b.n = 0 THEN NaN
    ELSE FMul(a, Float(b.d, b.n))

\* n1/d1 < n2/d2 for d1, d2 > 0, by continued fractions (no cross product)
RECURSIVE RatLt(_, _, _, _)
RatLt(n1, d1, n2, d2) ==
    LET q1 == n1 \div d1
        q2 == n2 \div d2
        r1 == n1 % d1
        r2 == n2 % d2
    IN  IF q1 # q2 THEN q1 < q2
        ELSE IF r1 = 0 THEN r2 > 0
        ELSE IF r2 = 0 THEN FALSE
        ELSE RatLt(d2, r2, d1, r1)

\* IEEE comparisons: every comparison with NaN is False, != is True
FLt(a, b) == ~a.nan /\ ~b.nan /\ RatLt(a.n, a.d, b.n, b.d)
FGt(a, b) == FLt(b, a)
FEq(a, b) == ~a.nan /\ ~b.nan /\ a.n = b.n /\ a.d = b.d
FNe(a, b) == ~FEq(a, b)
FLe(a, b) == FLt(a, b) \/ FEq(a, b)
FGe(a, b) == FLe(b, a)

\* ------------------------------------------------------- Series operations
\* mutant: shift(-1), the value of the next bar
Shift_next(s) == [i \in 1..Len(s) |-> IF i = Len(s) THEN NaN ELSE s[i + 1]]

\* Series.shift(1)
Shift(s) == [i \in 1..Len(s) |-> IF i = 1 THEN NaN ELSE s[i - 1]]

\* Series.fillna(v)
Fillna(s, v) == [i \in 1..Len(s) |-> IF s[i].nan THEN v ELSE s[i]]

\* Series.ffill(): a missing value takes the latest value that is not missing
RECURSIVE FfillAt(_, _)
FfillAt(s, i) ==
    IF i = 0 THEN NaN
    ELSE IF ~s[i].nan THEN s[i]
    ELSE FfillAt(s, i - 1)

Ffill(s) == [i \in 1..Len(s) |-> FfillAt(s, i)]

\* Series.dropna()
DropNa(s) == SelectSeq(s, LAMBDA x : ~x.nan)

\* Series.pct_change()
PctChange(s) ==
    [i \in 1..Len(s) |-> IF i = 1 THEN NaN ELSE FSub(FDiv(s[i], s[i - 1]), One)]

RECURSIVE CumprodAt(_, _)
CumprodAt(s, i) == IF i = 1 THEN s[1] ELSE FMul(CumprodAt(s, i - 1), s[i])

\* Series.cumprod()
Cumprod(s) == [i \in 1..Len(s) |-> CumprodAt(s, i)]

RECURSIVE SumTo(_, _)
SumTo(s, i) == IF i = 0 THEN Zero ELSE FAdd(SumTo(s, i - 1), s[i])

\* Series.mean(): NaN for an empty Series
Mean(s) == IF Len(s) = 0 THEN NaN ELSE FDiv(SumTo(s, Len(s)), Float(Len(s), 1))

\* the square of Series.std() (ddof = 1): NaN with fewer than two samples
Variance(s) ==
    IF Len(s) < 2 THEN NaN
    ELSE LET m  == Mean(s)
             sq == [i \in 1..Len(s) |-> FMul(FSub(s[i], m), FSub(s[i], m))]
         IN  FDiv(SumTo(sq, Len(s)), Float(Len(s) - 1, 1))

\* the prices as a float Series
AsFloat(p) == [i \in 1..Len(p) |-> Float(p[i], 1)]

RECURSIVE WindowSum(_, _, _)
WindowSum(p, i, w) == IF w = 0 THEN 0 ELSE p[i] + WindowSum(p, i - 1, w - 1)

\* prices.rolling(window = w, min_periods = w).mean()
RollingMean(p, w) ==
    [i \in 1..Len(p) |-> IF i >= w THEN Float(WindowSum(p, i, w), w) ELSE NaN]

\* ------------------------------------------------ the pipeline of one pair
\* mutant: ~(prev_fast > prev_slow) for prev_fast <= prev_slow, which an
\* undefined previous average satisfies
CrossUp_undefined_prev(p, f, s) ==
    LET fast_ma   == RollingMean(p, f)
        slow_ma   == RollingMean(p, s)
        prev_fast == Shift(fast_ma)
        prev_slow == Shift(slow_ma)
    IN  [i \in 1..Len(p) |->
            FGt(fast_ma[i], slow_ma[i]) /\ ~FGt(prev_fast[i], prev_slow[i])]

\* cross_up = (fast_ma > slow_ma) & (prev_fast <= prev_slow)
CrossUp(p, f, s) ==
    LET fast_ma   == RollingMean(p, f)
        slow_ma   == RollingMean(p, s)
        prev_fast == Shift(fast_ma)
        prev_slow == Shift(slow_ma)
    IN  [i \in 1..Len(p) |->
            FGt(fast_ma[i], slow_ma[i]) /\ FLe(prev_fast[i], prev_slow[i])]

\* cross_down = (fast_ma < slow_ma) & (prev_fast >= prev_slow)
CrossDown(p, f, s) ==
    LET fast_ma   == RollingMean(p, f)
        slow_ma   == RollingMean(p, s)
        prev_fast == Shift(fast_ma)
        prev_slow == Shift(slow_ma)
    IN  [i \in 1..Len(p) |->
            FLt(fast_ma[i], slow_ma[i]) /\ FGe(prev_fast[i], prev_slow[i])]

\* series[mask] = v
SetWhere(series, mask, v) ==
    [i \in 1..Len(series) |-> IF mask[i] THEN v ELSE series[i]]

moving_average_crossover_signals(p, f, s) ==
    LET signal0 == [i \in 1..Len(p) |-> Zero]
        signal1 == SetWhere(signal0, CrossUp(p, f, s), One)
        signal2 == SetWhere(signal1, CrossDown(p, f, s), Zero)
    IN  Fillna(Ffill(signal2), Zero)

\* mutant: the position of bar i is signal[i], without the shift
backtest_signals_no_lag(p, sig) ==
    LET returns          == Fillna(PctChange(AsFloat(p)), Zero)
        strategy_returns == [i \in 1..Len(p) |-> FMul(returns[i], sig[i])]
    IN  Cumprod([i \in 1..Len(p) |-> FAdd(One, strategy_returns[i])])

backtest_signals(p, sig) ==
    LET returns          == Fillna(PctChange(AsFloat(p)), Zero)
        position         == Fillna(Shift(sig), Zero)
        strategy_returns == [i \in 1..Len(p) |-> FMul(returns[i], position[i])]
    IN  Cumprod([i \in 1..Len(p) |-> FAdd(One, strategy_returns[i])])

\* equity.iloc[-1] raises IndexError on an empty Series
RaisesIndexError(eq) == Len(eq) = 0

TotalReturn(eq) == FSub(eq[Len(eq)], One)

\* sqrt(252) * mean / std if std != 0 else 0, as sgn(s) * s^2
Sharpe(eq) ==
    LET equity_returns == DropNa(PctChange(eq))
        m   == Mean(equity_returns)
        var == Variance(equity_returns)
        sq  == FDiv(FMul(Float(AnnualizationDays, 1), FMul(m, m)), var)
    IN  IF FNe(var, Zero)
        THEN (IF FLt(m, Zero) THEN FNeg(sq) ELSE sq)
        ELSE Zero

StrategyPerformance(f, s, eq) ==
    [fast_period  |-> f,
     slow_period  |-> s,
     total_return |-> TotalReturn(eq),
     sharpe       |-> Sharpe(eq),
     equity       |-> eq]

\* ------------------------------------------------------------- list.sort
\* (a.sharpe, a.total_return) < (b.sharpe, b.total_return), as Python
\* compares tuples: the first items that are not == decide
KeyLt(a, b) ==
    IF FNe(a.sharpe, b.sharpe) THEN FLt(a.sharpe, b.sharpe)
    ELSE IF FNe(a.total_return, b.total_return)
         THEN FLt(a.total_return, b.total_return)
    ELSE FALSE

Reverse(s) == [i \in 1..Len(s) |-> s[Len(s) + 1 - i]]

\* x goes before the first item that x is less than (stable)
InsertSorted(sorted, x) ==
    LET later == {k \in 1..Len(sorted) : KeyLt(x, sorted[k])}
        pos   == IF later = {} THEN Len(sorted) + 1
                 ELSE CHOOSE k \in later : \A j \in later : k <= j
    IN  SubSeq(sorted, 1, pos - 1) \o <<x>> \o SubSeq(sorted, pos, Len(sorted))

RECURSIVE StableSort(_, _)
StableSort(s, k) ==
    IF k = 0 THEN <<>> ELSE InsertSorted(StableSort(s, k - 1), s[k])

\* mutant: sort ascending, then reverse (equal keys end up reversed)
SortReverse_then_reverse(s) == Reverse(StableSort(s, Len(s)))

\* list.sort(key = ..., reverse = True): reverse, stable sort, reverse
SortReverse(s) == Reverse(StableSort(Reverse(s), Len(s)))

\* s[:n]
Head10(s) == SubSeq(s, 1, IF Len(s) < TopN THEN Len(s) ELSE TopN)

\* ------------------------------------------------------- find_best_edges
fast_start == fast_range[1]
fast_end   == fast_range[2]
slow_start == slow_range[1]
slow_end   == slow_range[2]

\* mutant: range(slow_start, slow_end + 1)
SlowFirst_no_clamp(f) == slow_start

\* mutant: range(fast + 1, slow_end + 1)
SlowFirst_no_slow_start(f) == f + 1

\* first value of range(max(fast + 1, slow_start), slow_end + 1)
SlowFirst(f) == Max(f + 1, slow_start)

\* the inputs
Scenario == <<100, 102, 101, 105, 103, 108>>

SmallSeries == UNION {[1..n -> 1..MaxPrice] : n \in 0..MaxLen}

Ranges == (1..MaxPeriod) \X (1..MaxPeriod)

SmallInputs ==
    [prices : SmallSeries \cup {Scenario}, fast_range : Ranges, slow_range : Ranges]

WideSeries == [1..(MaxLen + 1) -> 1..MaxPrice]

WideInputs ==
    [prices : WideSeries \cup {Scenario}, fast_range : {<<1, WideHi - 1>>},
     slow_range : {<<2, WideHi>>, <<1, WideHi>>}]

Inputs == SmallInputs \cup WideInputs

\* no second call is made
NoSecond == [prices |-> <<>>, signal |-> <<>>, equity |-> <<>>]

Init ==
    /\ \E in \in Inputs :
          /\ prices = in.prices
          /\ fast_range = in.fast_range
          /\ slow_range = in.slow_range
          /\ fast = in.fast_range[1]
          /\ slow = SlowFirst(in.fast_range[1])
    /\ performances = <<>>
    /\ signal = <<>>
    /\ equity = <<>>
    /\ result = <<>>
    /\ pc = "loop"
    /\ second = NoSecond

InLoopBody == pc = "loop" /\ fast <= fast_end /\ slow <= slow_end

\* one run of the inner loop body that returns
EvalPair ==
    /\ InLoopBody
    /\ signal' = moving_average_crossover_signals(prices, fast, slow)
    /\ equity' = backtest_signals(prices, signal')
    /\ ~RaisesIndexError(equity')
    /\ performances' = Append(performances, StrategyPerformance(fast, slow, equity'))
    /\ slow' = slow + 1
    /\ UNCHANGED <<prices, fast_range, slow_range, fast, result, pc, second>>

\* one run of the inner loop body in which compute_performance raises
EvalPairRaises ==
    /\ InLoopBody
    /\ signal' = moving_average_crossover_signals(prices, fast, slow)
    /\ equity' = backtest_signals(prices, signal')
    /\ RaisesIndexError(equity')
    /\ pc' = "raised"
    /\ UNCHANGED <<prices, fast_range, slow_range, fast, slow, performances, result,
                   second>>

\* the inner range is exhausted: the outer loop takes its next value
NextFast ==
    /\ pc = "loop" /\ fast <= fast_end /\ slow > slow_end
    /\ fast' = fast + 1
    /\ slow' = SlowFirst(fast + 1)
    /\ UNCHANGED <<prices, fast_range, slow_range, performances, signal, equity,
                   result, pc, second>>

\* the outer range is exhausted: sort in place and return the first ten
SortAndReturn ==
    /\ pc = "loop" /\ fast > fast_end
    /\ performances' = SortReverse(performances)
    /\ result' = Head10(performances')
    /\ pc' = "done"
    /\ UNCHANGED <<prices, fast_range, slow_range, fast, slow, signal, equity, second>>

Next == EvalPair \/ EvalPairRaises \/ NextFast \/ SortAndReturn

Spec == Init /\ [][Next]_vars

\* --------------------------------------- backtest_signals called on its own
Signals(n) == [1..n -> {Zero, One}]

InitBT ==
    /\ prices \in SmallSeries \cup {Scenario}
    /\ signal \in Signals(Len(prices))
    /\ fast_range = <<1, 1>>
    /\ slow_range = <<2, 2>>
    /\ fast = 1
    /\ slow = 2
    /\ performances = <<>>
    /\ equity = <<>>
    /\ result = <<>>
    /\ pc = "bt"
    /\ second = NoSecond

BacktestCall ==
    /\ pc = "bt"
    /\ equity' = backtest_signals(prices, signal)
    /\ pc' = "bt_done"
    /\ UNCHANGED <<prices, fast_range, slow_range, fast, slow, performances,
                   signal, result, second>>

NextBT == BacktestCall

SpecBT == InitBT /\ [][NextBT]_vars

\* ------------- the signal and the backtest called on two series of one length
\* (two series that part on the first bar agree on no bar: the compared
\* series share their first bar at least; the order of the two calls does
\* not matter, so the first series is the higher one on the bar where they part)
PeriodPairs == {pr \in Ranges : pr[1] < pr[2]}

InitNL ==
    /\ prices \in SmallSeries
    /\ \E p2 \in [1..Len(prices) -> 1..MaxPrice] :
          /\ Len(prices) >= 1 => p2[1] = prices[1]
          /\ LET parted == {j \in 1..Len(prices) : p2[j] # prices[j]}
             IN  \A j \in parted :
                    (\A k \in parted : j <= k) => prices[j] > p2[j]
          /\ second = [prices |-> p2, signal |-> <<>>, equity |-> <<>>]
    /\ \E pr \in PeriodPairs :
          /\ fast = pr[1]
          /\ slow = pr[2]
          /\ fast_range = <<pr[1], pr[1]>>
          /\ slow_range = <<pr[2], pr[2]>>
    /\ performances = <<>>
    /\ signal = <<>>
    /\ equity = <<>>
    /\ result = <<>>
    /\ pc = "nl"

\* moving_average_crossover_signals on each of the two series
SignalCalls ==
    /\ pc = "nl"
    /\ signal' = moving_average_crossover_signals(prices, fast, slow)
    /\ second' = [second EXCEPT
                    !.signal = moving_average_crossover_signals(second.prices, fast, slow)]
    /\ pc' = "nl_signals"
    /\ UNCHANGED <<prices, fast_range, slow_range, fast, slow, performances,
                   equity, result>>

\* backtest_signals on each of the two series and its signal
BacktestCalls ==
    /\ pc = "nl_signals"
    /\ equity' = backtest_signals(prices, signal)
    /\ second' = [second EXCEPT
                    !.equity = backtest_signals(second.prices, second.signal)]
    /\ pc' = "nl_done"
    /\ UNCHANGED <<prices, fast_range, slow_range, fast, slow, performances,
                   signal, result>>

NextNL == SignalCalls \/ BacktestCalls

SpecNL == InitNL /\ [][NextNL]_vars

\* ================================================================ claims
\* the latest inner loop body returned: signal and equity are its pair's
Evaluated == pc = "loop" /\ performances # <<>>

LastPerf == performances[Len(performances)]

LastUp   == CrossUp(prices, LastPerf.fast_period, LastPerf.slow_period)
LastDown == CrossDown(prices, LastPerf.fast_period, LastPerf.slow_period)

\* the event indices up to i, and whether the latest of them is a cross-up
EventsUpTo(i) == {j \in 1..i : LastUp[j] \/ LastDown[j]}

LatestEventIsUp(i) ==
    /\ EventsUpTo(i) # {}
    /\ LastUp[CHOOSE j \in EventsUpTo(i) : \A k \in EventsUpTo(i) : k <= j]

\* C1: the signal persists between events: signal[i] is LONG exactly when
\* there is an event at or before i and the latest such event is a cross-up.
C1_SignalPersists ==
    Evaluated =>
        \A i \in 1..Len(prices) : (signal[i] = One) <=> LatestEventIsUp(i)

\* the price return of bar i, prices[i]/prices[i-1] - 1
PriceReturn(i) == FSub(FDiv(Float(prices[i], 1), Float(prices[i - 1], 1)), One)

\* C2: one-bar execution lag: equity[0] = 1 and equity[i] = equity[i-1] *
\* (1 + (prices[i]/prices[i-1] - 1) * signal[i-1]); a bar whose previous
\* signal is FLAT leaves the equity unchanged whatever signal[i] is.
C2_OneBarLag ==
    pc = "bt_done" =>
        /\ Len(equity) = Len(prices)
        /\ Len(prices) >= 1 => equity[1] = One
        /\ \A i \in 2..Len(prices) :
              /\ equity[i] =
                    FMul(equity[i - 1], FAdd(One, FMul(PriceReturn(i), signal[i - 1])))
              /\ signal[i - 1] = Zero => equity[i] = equity[i - 1]

\* a FLAT bar followed by a LONG bar on a moving price, and a bar that moved
C2_Witness ==
    /\ pc = "bt_done"
    /\ \E i \in 2..Len(prices) :
          /\ signal[i - 1] = Zero /\ signal[i] = One
          /\ prices[i] # prices[i - 1]
          /\ equity[i] = equity[i - 1]
    /\ \E i \in 2..Len(prices) : equity[i] # equity[i - 1]

\* C3: adjacent results are ranked: r[i].sharpe > r[i+1].sharpe, or the
\* sharpes are equal and r[i].total_return >= r[i+1].total_return.
C3_MonotonicRanking ==
    pc = "done" =>
        \A i \in 1..(Len(result) - 1) :
            \/ FGt(result[i].sharpe, result[i + 1].sharpe)
            \/ /\ FEq(result[i].sharpe, result[i + 1].sharpe)
               /\ FGe(result[i].total_return, result[i + 1].total_return)

SameKey(a, b) == a.sharpe = b.sharpe /\ a.total_return = b.total_return

GridOrder(a, b) ==
    \/ a.fast_period < b.fast_period
    \/ a.fast_period = b.fast_period /\ a.slow_period < b.slow_period

\* C4: among returned results with the same (sharpe, total_return), the
\* smaller fast_period comes first and, for equal fast_period, the smaller
\* slow_period: the descending sort keeps the generation order of equal keys.
C4_TieBreak ==
    pc = "done" =>
        \A i, j \in 1..Len(result) :
            (i < j /\ SameKey(result[i], result[j])) => GridOrder(result[i], result[j])

\* a returned list, cut to ten, with a tie between two different fast
\* periods below a result of another key
C4_Witness ==
    /\ pc = "done"
    /\ Len(performances) > TopN
    /\ \E i, j \in 1..Len(result) :
          /\ i < j
          /\ SameKey(result[i], result[j])
          /\ ~result[i].sharpe.nan
          /\ result[i].fast_period < result[j].fast_period
    /\ \E i \in 1..Len(result) : ~SameKey(result[1], result[i])

SeqToSet(s) == {s[i] : i \in 1..Len(s)}

\* C5: every StrategyPerformance appended or returned has
\* fast_period < slow_period, whatever the two ranges are.
C5_FastBelowSlow ==
    \A r \in SeqToSet(performances) \cup SeqToSet(result) :
        r.fast_period < r.slow_period

\* a returned result of a grid whose slow range starts at or below the fast one
C5_Witness ==
    /\ pc = "done"
    /\ slow_start <= fast_start
    /\ slow_end < fast_end
    /\ result # <<>>

\* the pairs of the grid, and each one scored independently
GridPairs ==
    {pr \in (fast_start..fast_end) \X (slow_start..slow_end) :
        pr[2] >= Max(pr[1] + 1, slow_start)}

Score(pr) ==
    StrategyPerformance(pr[1], pr[2],
        backtest_signals(prices, moving_average_crossover_signals(prices, pr[1], pr[2])))

\* a ranks before b: greater sharpe, then greater total_return, then smaller
\* fast, then smaller slow
RanksBefore(a, b) ==
    \/ FGt(a.sharpe, b.sharpe)
    \/ FEq(a.sharpe, b.sharpe) /\ FGt(a.total_return, b.total_return)
    \/ /\ FEq(a.sharpe, b.sharpe) /\ FEq(a.total_return, b.total_return)
       /\ GridOrder(a, b)

\* C6: the first result is the best of all grid pairs scored independently
\* (greatest sharpe, then greatest total_return, then smallest fast, then
\* smallest slow); at most 10 results, each pair at most once, and no
\* dropped pair ranks before a kept one.
C6_OracleEquivalence ==
    (pc = "done" /\ GridPairs # {}) =>
        /\ result # <<>>
        /\ <<result[1].fast_period, result[1].slow_period>> \in GridPairs
        /\ result[1] = Score(<<result[1].fast_period, result[1].slow_period>>)
        /\ \A pr \in GridPairs \ {<<result[1].fast_period, result[1].slow_period>>} :
              RanksBefore(result[1], Score(pr))
        /\ Len(result) <= TopN
        /\ \A i, j \in 1..Len(result) :
              (i # j) => <<result[i].fast_period, result[i].slow_period>>
                             # <<result[j].fast_period, result[j].slow_period>>
        /\ \A pr \in GridPairs :
              (Score(pr) \notin SeqToSet(result)) =>
                  \A i \in 1..Len(result) : ~RanksBefore(Score(pr), result[i])

\* C7: an empty price series with a grid of at least one pair does not
\* raise: the search never ends in an exception.
C7_EmptySeriesDoesNotRaise ==
    (prices = <<>> /\ GridPairs # {}) => pc # "raised"

IsConstant(p) == \A i \in 1..Len(p) : p[i] = p[1]

\* C8: on a constant price series of any length >= 1 a pair yields no
\* cross-up and no cross-down, an equity of 1.0 at every index,
\* total_return = 0 and sharpe = 0 (never NaN).
C8_ConstantSeries ==
    (Evaluated /\ IsConstant(prices)) =>
        /\ \A i \in 1..Len(prices) : ~LastUp[i] /\ ~LastDown[i]
        /\ \A i \in 1..Len(prices) : equity[i] = One
        /\ LastPerf.total_return = Zero
        /\ LastPerf.sharpe = Zero

\* the scenario's pair was the latest one evaluated
ScenarioEvaluated ==
    /\ Evaluated
    /\ prices = Scenario
    /\ LastPerf.fast_period = 2
    /\ LastPerf.slow_period = 3

\* C9 as claimed: the scenario has exactly one cross-up, the equity gains on
\* the bar after it and every bar before that one has zero return.
C9_ScenarioOneCrossUp ==
    ScenarioEvaluated =>
        /\ Cardinality({i \in 1..Len(prices) : LastUp[i]}) = 1
        /\ \A i \in 1..Len(prices) :
              LastUp[i] =>
                 /\ i < Len(prices)
                 /\ FGt(equity[i + 1], equity[i])
                 /\ \A k \in 1..i : equity[k] = One

\* C9 as amended: the scenario has no cross-up and no cross-down (the fast
\* average is above the slow one from the first bar where both are defined),
\* the signal is FLAT at every index and the equity is 1.0 on every bar.
C9_ScenarioNoEvent ==
    ScenarioEvaluated =>
        /\ \A i \in 1..Len(prices) : ~LastUp[i] /\ ~LastDown[i]
        /\ \A i \in 1..Len(prices) : signal[i] = Zero
        /\ \A i \in 1..Len(prices) : equity[i] = One
        /\ LastPerf.total_return = Zero

C9_Witness ==
    /\ ScenarioEvaluated
    /\ FGt(RollingMean(prices, 2)[3], RollingMean(prices, 3)[3])
    /\ equity[Len(prices)] = One

GridEmpty == \A f \in fast_start..fast_end : Max(f + 1, slow_start) > slow_end

\* the number of pairs of the grid with fast period f
PairsOf(f) ==
    IF Max(f + 1, slow_start) > slow_end THEN 0
    ELSE slow_end - Max(f + 1, slow_start) + 1

\* C10: an empty grid (fast_lo > fast_hi, or every clamped slow range empty)
\* returns the empty list without raising and without evaluating a pair; a
\* fast value whose clamped slow range is empty contributes nothing while
\* the other fast values contribute all their pairs.
C10_EmptyGrid ==
    /\ GridEmpty =>
          /\ pc # "raised"
          /\ performances = <<>> /\ signal = <<>> /\ equity = <<>>
          /\ pc = "done" => result = <<>>
          /\ pc # "done" => ENABLED (NextFast \/ SortAndReturn)
    /\ pc = "done" =>
          \A f \in fast_start..fast_end :
              Cardinality({i \in 1..Len(performances) :
                              performances[i].fast_period = f}) = PairsOf(f)

\* a search over an inverted fast range (such as (10, 5)) of a series that is
\* not empty, which returned the empty list
C10_Witness ==
    /\ pc = "done"
    /\ prices # <<>>
    /\ fast_start > fast_end
    /\ slow_start < slow_end
    /\ result = <<>>

\* a search that returned, in which one fast value had an empty clamped slow
\* range and another one contributed
C10_WitnessPartial ==
    /\ pc = "done"
    /\ prices # <<>>
    /\ \E f \in fast_start..fast_end : PairsOf(f) = 0
    /\ \E f \in fast_start..fast_end : PairsOf(f) > 0
    /\ result # <<>>

\* the two series agree on the first k bars
AgreeUpTo(k) == \A j \in 1..k : prices[j] = second.prices[j]

\* the position applied to the return of each bar: signal.shift(1).fillna(0)
PositionOf(sig) == Fillna(Shift(sig), Zero)

\* C11: no lookahead: for two price series of one length that agree on the
\* bars up to i, the signals agree up to i and the equity curves agree up to
\* i; the position applied to bar i's return is the same as soon as the
\* series agree on the bars before i.
C11_NoLookahead ==
    /\ pc \in {"nl_signals", "nl_done"} =>
          /\ Len(signal) = Len(prices) /\ Len(second.signal) = Len(prices)
          /\ \A k \in 1..Len(prices) :
                AgreeUpTo(k) => \A j \in 1..k : signal[j] = second.signal[j]
          /\ \A k \in 1..Len(prices) :
                AgreeUpTo(k - 1) =>
                    PositionOf(signal)[k] = PositionOf(second.signal)[k]
    /\ pc = "nl_done" =>
          /\ Len(equity) = Len(prices) /\ Len(second.equity) = Len(prices)
          /\ \A k \in 1..Len(prices) :
                AgreeUpTo(k) => \A j \in 1..k : equity[j] = second.equity[j]

\* two series that agree on k bars and part on the next one, where the
\* signals part too, the first one being LONG, and the equities part later
C11_Witness ==
    /\ pc = "nl_done"
    /\ \E k \in 1..(Len(prices) - 1) :
          /\ AgreeUpTo(k)
          /\ prices[k + 1] # second.prices[k + 1]
          /\ signal[k + 1] = One
          /\ second.signal[k + 1] = Zero
          /\ \E j \in (k + 2)..Len(prices) : equity[j] # second.equity[j]
====
